---- MODULE Spec2Model ----
(***************************************************************************)
(* Frizzle travel-planning agent (src/agent/agent.py).                     *)
(*                                                                         *)
(* Two specifications share this module:                                   *)
(*   Spec / FairSpec : the LangGraph workflow chat_node <-> tool_node.      *)
(*   ToolSpec        : the backend tools and payload builders, applied to  *)
(*                     inputs drawn from bounded sets.                     *)
(***************************************************************************)
EXTENDS Integers, Sequences, FiniteSets, TLC

VARIABLES
    pc,          \* node the graph runs next: "chat_node", "tool_node", "END"
    messages,    \* AgentState.messages (MessagesState, append-only)
    content,     \* AgentState.content, the document snapshot
    group_id,    \* AgentState.group_id
    groupId,     \* state.get("groupId"), the alternate key chat_node reads
    tools,       \* AgentState.tools: names of the frontend (ag-ui) tools
    prompt,      \* the message list of the latest model_with_tools.ainvoke
    executed,    \* names of the tools invoked by the latest tool_node step
    iterations,  \* number of chat_node runs so far in this turn
    call,        \* latest direct tool / builder invocation (ToolSpec)
    result       \* what that invocation returned (ToolSpec)

dispatchVars == <<pc, messages, content, group_id, groupId, tools, prompt, executed, iterations>>
vars == <<pc, messages, content, group_id, groupId, tools, prompt, executed, iterations, call, result>>

Min(a, b) == IF a < b THEN a ELSE b
Max(a, b) == IF a > b THEN a ELSE b

(***************************************************************************)
(* Bounds of the model.                                                    *)
(***************************************************************************)
\* chat_node runs per turn after which the model is made to stop asking for
\* backend tools (the code has no such bound)
MaxRounds == 2

(***************************************************************************)
(* Strings.  A long document is a run-length string: a sequence of         *)
(* <<char, count>> runs.                                                   *)
(***************************************************************************)
RECURSIVE RLLen(_)
RLLen(s) == IF s = <<>> THEN 0 ELSE s[1][2] + RLLen(Tail(s))

\* s[i] for 1 <= i <= RLLen(s)
RECURSIVE RLCharAt(_, _)
RLCharAt(s, i) == IF i <= s[1][2] THEN s[1][1] ELSE RLCharAt(Tail(s), i - s[1][2])

\* Python slice s[:n] for n >= 0
RECURSIVE RLTake(_, _)
RLTake(s, n) ==
    IF s = <<>> \/ n <= 0 THEN <<>>
    ELSE IF s[1][2] <= n THEN <<s[1]>> \o RLTake(Tail(s), n - s[1][2])
    ELSE << <<s[1][1], n>> >>

(***************************************************************************)
(* Dispatch loop                                                           *)
(***************************************************************************)
backend_tool_names ==
    <<"research_destination", "create_itinerary_template",
      "suggest_improvements", "add_planning_section">>

BackendNames == {backend_tool_names[i] : i \in 1..Len(backend_tool_names)}

max_chars == 8000

HistoryLimit == 6

\* Tool-call lists a model response may carry (names of tools bound by
\* bind_tools: state.tools and backend_tools).
ToolCallLists ==
    { <<>>,
      <<"updateDocument">>, <<"addSection">>, <<"updateDocument", "addSection">>,
      <<"research_destination">>, <<"create_itinerary_template">>,
      <<"suggest_improvements">>, <<"add_planning_section">>,
      <<"research_destination", "updateDocument">>,
      <<"addSection", "create_itinerary_template">>,
      <<"suggest_improvements", "add_planning_section">>,
      <<"updateDocument", "research_destination", "addSection">> }

Contents ==
    { <<>>,
      << <<"a", 5>> >>,
      << <<"a", 7999>>, <<"b", 1>> >>,
      << <<"a", 7999>>, <<"b", 1>>, <<"c", 1>> >>,
      << <<"a", 8000>>, <<"c", 500>> >> }

\* (group_id, groupId) pairs of the incoming state; "" is an absent key
GroupKeys == { <<"", "">>, <<"team-7", "">>, <<"", "legacy-3">> }

InitLens == {1, 7}

HumanMessage(i) == [id |-> i, type |-> "human", tool_calls |-> <<>>, name |-> "", status |-> ""]
AIMessage(i, calls) == [id |-> i, type |-> "ai", tool_calls |-> calls, name |-> "", status |-> ""]
ToolMessage(i, nm, st) == [id |-> i, type |-> "tool", tool_calls |-> <<>>, name |-> nm, status |-> st]

\* The history a turn starts with: earlier turns' human / assistant texts,
\* ending with the new human message.
InitialHistory(n) ==
    [i \in 1..n |-> IF (n - i) % 2 = 0 THEN HumanMessage(i) ELSE AIMessage(i, <<>>)]

route_to_tool_node_any(tool_calls) == tool_calls # <<>>

route_to_tool_node_first(tool_calls) ==
    tool_calls # <<>> /\ tool_calls[1] \in BackendNames

route_to_tool_node(tool_calls) ==
    IF tool_calls = <<>> THEN FALSE
    ELSE \E i \in 1..Len(tool_calls) : tool_calls[i] \in BackendNames

GroupIdOf(gid, gId) ==
    IF gid # "" THEN gid ELSE IF gId # "" THEN gId ELSE "Solo planning session"

SystemMessage(gid, gId, doc) ==
    [id |-> 0, type |-> "system", group |-> GroupIdOf(gid, gId),
     doc_snapshot |-> RLTake(doc, max_chars)]

PriorMessages_first(msgs) ==
    IF Len(msgs) > HistoryLimit THEN SubSeq(msgs, 1, HistoryLimit) ELSE msgs

PriorMessages(msgs) ==
    IF Len(msgs) > HistoryLimit
    THEN SubSeq(msgs, Len(msgs) - HistoryLimit + 1, Len(msgs))
    ELSE msgs

\* langgraph.prebuilt.ToolNode(tools=backend_tools): one ToolMessage per tool
\* call of the last AI message, in order; a call naming a registered tool
\* invokes it, any other name is answered with an invalid-tool error message.
ToolOutputs(last, base) ==
    [i \in 1..Len(last.tool_calls) |->
        ToolMessage(base + i, last.tool_calls[i],
                    IF last.tool_calls[i] \in BackendNames THEN "success" ELSE "error")]

ToolsInvoked(last) == SelectSeq(last.tool_calls, LAMBDA nm : nm \in BackendNames)

NoCall == [op |-> "none"]

Init ==
    /\ pc = "chat_node"
    /\ \E n \in InitLens : messages = InitialHistory(n)
    /\ content \in Contents
    /\ \E g \in GroupKeys : group_id = g[1] /\ groupId = g[2]
    /\ tools = <<"updateDocument", "addSection">>
    /\ prompt = <<>>
    /\ executed = <<>>
    /\ iterations = 0
    /\ call = NoCall
    /\ result = NoCall

chat_node ==
    /\ pc = "chat_node"
    /\ \E calls \in ToolCallLists :
        /\ \A i \in 1..Len(calls) :
              calls[i] \in BackendNames \/ \E j \in 1..Len(tools) : tools[j] = calls[i]
        /\ iterations < MaxRounds \/ ~route_to_tool_node(calls)
        /\ prompt' = <<SystemMessage(group_id, groupId, content)>> \o PriorMessages(messages)
        /\ messages' = Append(messages, AIMessage(Len(messages) + 1, calls))
        /\ pc' = IF route_to_tool_node(calls) THEN "tool_node" ELSE "END"
    /\ iterations' = iterations + 1
    /\ UNCHANGED <<content, group_id, groupId, tools, executed, call, result>>

tool_node ==
    /\ pc = "tool_node"
    /\ messages' = messages \o ToolOutputs(messages[Len(messages)], Len(messages))
    /\ executed' = ToolsInvoked(messages[Len(messages)])
    /\ pc' = "chat_node"
    /\ UNCHANGED <<content, group_id, groupId, tools, prompt, iterations, call, result>>

Next == chat_node \/ tool_node

Spec == Init /\ [][Next]_vars

\* The graph runtime always runs the node it was sent to, and the model call
\* returns.
FairSpec == Init /\ [][Next]_vars /\ WF_vars(chat_node) /\ WF_vars(tool_node)

(***************************************************************************)
(* Text.  A str the code inspects or rewrites is a sequence of one-        *)
(* character strings; a str it only passes along is a TLA+ string.         *)
(***************************************************************************)
LowerAlpha == <<"a", "b", "c", "d", "e", "f", "g", "h", "i", "j", "k", "l", "m", "n", "o", "p", "q", "r", "s", "t", "u", "v", "w", "x", "y", "z">>
UpperAlpha == <<"A", "B", "C", "D", "E", "F", "G", "H", "I", "J", "K", "L", "M", "N", "O", "P", "Q", "R", "S", "T", "U", "V", "W", "X", "Y", "Z">>

IsUpperChar(c) == \E i \in 1..Len(UpperAlpha) : UpperAlpha[i] = c
IsLowerChar(c) == \E i \in 1..Len(LowerAlpha) : LowerAlpha[i] = c
IsCasedChar(c) == IsUpperChar(c) \/ IsLowerChar(c)

ToLowerChar(c) ==
    IF IsUpperChar(c) THEN LowerAlpha[CHOOSE i \in 1..Len(UpperAlpha) : UpperAlpha[i] = c] ELSE c
ToUpperChar(c) ==
    IF IsLowerChar(c) THEN UpperAlpha[CHOOSE i \in 1..Len(LowerAlpha) : LowerAlpha[i] = c] ELSE c

\* str.lower()
StrLower(s) == [i \in 1..Len(s) |-> ToLowerChar(s[i])]

\* str.title(): a cased character is upper-cased when it follows an uncased
\* one (or starts the string) and lower-cased otherwise
StrTitle(s) ==
    [i \in 1..Len(s) |->
        IF i > 1 /\ IsCasedChar(s[i - 1]) THEN ToLowerChar(s[i]) ELSE ToUpperChar(s[i])]

S_tokyo == <<"t", "o", "k", "y", "o">>
S_paris == <<"p", "a", "r", "i", "s">>
S_bali == <<"b", "a", "l", "i">>
S_adventure == <<"a", "d", "v", "e", "n", "t", "u", "r", "e">>
S_relaxed == <<"r", "e", "l", "a", "x", "e", "d">>
S_cultural == <<"c", "u", "l", "t", "u", "r", "a", "l">>
S_food == <<"f", "o", "o", "d">>
S_balanced == <<"b", "a", "l", "a", "n", "c", "e", "d">>
S_Checklist == <<" ", "C", "h", "e", "c", "k", "l", "i", "s", "t">>
S_Trip == <<"T", "r", "i", "p">>

\* destinations handed to the tools
Destinations ==
    { <<"t", "o", "k", "y", "o">>,
      <<"P", "a", "r", "i", "s">>,
      <<"B", "A", "L", "I">>,
      <<"T", "o", "k", "y", "o", ",", " ", "J", "a", "p", "a", "n">>,
      <<>> }

\* travel styles handed to the tools: the five known ones and an unknown one
TravelStyles ==
    { S_adventure, S_relaxed, S_cultural, S_food, S_balanced,
      <<"l", "u", "x", "u", "r", "y">> }

\* contexts handed to _generate_checklist
Contexts == { S_Trip, <<"t", "r", "i", "p">>, <<"r", "o", "a", "d", " ", "t", "r", "i", "p">> }

(***************************************************************************)
(* Payload builders: _generate_checklist                                   *)
(***************************************************************************)
ChecklistItem_checked(label) == [label |-> label, checked |-> (label = "Book flights")]

ChecklistItem(label) == [label |-> label, checked |-> FALSE]

ChecklistSections ==
    << [title |-> "Before You Go",
        items |-> << ChecklistItem("Book flights"),
                     ChecklistItem("Reserve accommodation"),
                     ChecklistItem("Check passport validity (>6 months)"),
                     ChecklistItem("Apply for visa if needed"),
                     ChecklistItem("Get travel insurance"),
                     ChecklistItem("Notify bank of travel plans"),
                     ChecklistItem("Check vaccination requirements") >>],
       [title |-> "Pack & Prepare",
        items |-> << ChecklistItem("Pack according to weather"),
                     ChecklistItem("Bring necessary adapters"),
                     ChecklistItem("Download offline maps"),
                     ChecklistItem("Learn basic local phrases"),
                     ChecklistItem("Research local customs"),
                     ChecklistItem("Exchange currency or get travel card") >>],
       [title |-> "During Trip",
        items |-> << ChecklistItem("Check in for flights"),
                     ChecklistItem("Confirm accommodations"),
                     ChecklistItem("Keep important documents safe"),
                     ChecklistItem("Stay hydrated and healthy") >>] >>

ChecklistTitle(destination, context) ==
    IF destination = <<>> THEN StrTitle(context) \o S_Checklist
    ELSE StrTitle(destination) \o <<" ">> \o StrTitle(context) \o S_Checklist

RECURSIVE Flatten(_)
Flatten(ss) == IF ss = <<>> THEN <<>> ELSE Head(ss) \o Flatten(Tail(ss))

\* the markdown fallback: a heading, then per section a heading and one
\* unchecked box per item
ChecklistMarkdown(title, sections) ==
    << [md |-> "h2", text |-> title] >> \o
    Flatten([s \in 1..Len(sections) |->
        << [md |-> "h3", text |-> sections[s].title] >> \o
        [k \in 1..Len(sections[s].items) |->
            [md |-> "box", text |-> sections[s].items[k].label]]])

\* a fenced block: the tag after the opening fence and the serialized object
JsonTag(tag, payload) == [fence |-> tag, json |-> payload]

_generate_checklist(destination, context) ==
    LET payload == [type |-> "checklist",
                    version |-> 1,
                    title |-> ChecklistTitle(destination, context),
                    destination |-> destination,
                    context |-> context,
                    sections |-> ChecklistSections]
    IN  [markdown |-> ChecklistMarkdown(payload.title, ChecklistSections),
         json_tag |-> JsonTag("json checklist", payload),
         data |-> payload]

(***************************************************************************)
(* Activity source adapter: _fetch_activities_from_api                     *)
(*                                                                         *)
(* The environment of a call: the OPENTRIPMAP_API_KEY variable and what    *)
(* the service would answer.  A feature is what the radius search returns  *)
(* for one place, with the outcome of its detail request:                  *)
(*   name   "" when properties.name is missing or empty                    *)
(*   kinds  properties.kinds split on ","                                  *)
(*   xid    "" when missing                                                *)
(*   detail "raise" (request fails), <<>> (no wikipedia text), or the      *)
(*          sentences of wikipedia_extracts.text                           *)
(***************************************************************************)
Feature(nm, kinds, xid, detail) == [name |-> nm, kinds |-> kinds, xid |-> xid, detail |-> detail]

Features ==
    { Feature("Senso-ji Temple", <<"historic", "museums">>, "N1", <<"Oldest temple in Tokyo", "Founded in 645">>),
      Feature("", <<"parks", "gardens">>, "", <<>>),
      Feature("Ramen Street", <<"restaurants", "foods">>, "W3", "raise") }

\* longest feature list the radius search answers with
MaxPool == 4

RECURSIVE SeqsUpTo(_, _)
SeqsUpTo(S, n) ==
    IF n = 0 THEN {<<>>}
    ELSE LET shorter == SeqsUpTo(S, n - 1)
         IN  shorter \cup {Append(q, x) : q \in {r \in shorter : Len(r) = n - 1}, x \in S}

FeatureLists == SeqsUpTo(Features, MaxPool)

NetOk(fs) == [geo |-> "ok", radius |-> "ok", features |-> fs]
NetFailures ==
    { [geo |-> "raise", radius |-> "ok", features |-> <<>>],
      [geo |-> "no_coords", radius |-> "ok", features |-> <<>>],
      [geo |-> "ok", radius |-> "raise", features |-> <<>>],
      [geo |-> "ok", radius |-> "malformed", features |-> <<>>] }

Env(key, net) == [api_key |-> key, net |-> net]

style_to_kinds(travel_style) ==
    CASE travel_style = S_adventure -> "hiking,active,beaches,water,parks"
      [] travel_style = S_relaxed -> "gardens,parks,spa,tea,cafes"
      [] travel_style = S_cultural -> "museums,historic,monuments,theatres,galleries,architecture"
      [] travel_style = S_food -> "restaurants,foods,cafes,marketplaces"
      [] OTHER -> "sights,interesting_places,architecture,restaurants,parks"

map_kinds_to_category(ks) ==
    LET s == {ks[i] : i \in 1..Len(ks)}
    IN  IF {"museums", "museum"} \cap s # {} THEN "Museum"
        ELSE IF {"theatres", "theatre"} \cap s # {} THEN "Arts"
        ELSE IF {"historic", "monuments"} \cap s # {} THEN "History"
        ELSE IF {"restaurants", "foods", "marketplaces"} \cap s # {} THEN "Food"
        ELSE IF {"hiking", "active", "trails"} \cap s # {} THEN "Hiking"
        ELSE IF {"water"} \cap s # {} THEN "Water Sports"
        ELSE IF {"parks", "gardens", "beaches"} \cap s # {} THEN "Parks"
        ELSE "Sightseeing"

\* the record built for one feature when `have` results were collected before
ActivityOfFeature(f, destination, have) ==
    LET category == map_kinds_to_category(f.kinds)
        generic == [text |-> "A <category.lower()> in <destination>.",
                    category |-> category, destination |-> destination]
        description ==
            IF f.xid # "" /\ have < 6 /\ f.detail # "raise" /\ f.detail # <<>>
            THEN [text |-> f.detail[1], category |-> "", destination |-> <<>>]
            ELSE generic
    IN  [name |-> IF f.name # "" THEN f.name ELSE "Point of Interest",
         description |-> description,
         category |-> category]

\* the loop over features: append, stop once len(results) >= limit
RECURSIVE CollectResults(_, _, _, _)
CollectResults(fs, destination, limit, results) ==
    IF fs = <<>> THEN results
    ELSE LET grown == Append(results, ActivityOfFeature(Head(fs), destination, Len(results)))
         IN  IF Len(grown) >= limit THEN grown
             ELSE CollectResults(Tail(fs), destination, limit, grown)

\* the requests the call sends, in order
RECURSIVE DetailRequests(_, _, _)
DetailRequests(fs, limit, have) ==
    IF fs = <<>> THEN <<>>
    ELSE (IF Head(fs).xid # "" /\ have < 6 THEN << [endpoint |-> "xid", arg |-> Head(fs).xid] >> ELSE <<>>)
         \o (IF have + 1 >= limit THEN <<>> ELSE DetailRequests(Tail(fs), limit, have + 1))

\* the try block: what it returns, or that an exception left it (raised)
FetchTry(env, destination, travel_style, limit) ==
    LET geoReq == << [endpoint |-> "geoname", arg |-> destination] >>
        radReq == << [endpoint |-> "radius", arg |-> style_to_kinds(travel_style)] >>
    IN  IF env.net.geo = "raise"
        THEN [raised |-> TRUE, results |-> <<>>, requests |-> geoReq]
        ELSE IF env.net.geo = "no_coords"
        THEN [raised |-> FALSE, results |-> <<>>, requests |-> geoReq]
        ELSE IF env.net.radius # "ok"
        THEN [raised |-> TRUE, results |-> <<>>, requests |-> geoReq \o radReq]
        ELSE [raised |-> FALSE,
              results |-> CollectResults(env.net.features, destination, limit, <<>>),
              requests |-> geoReq \o radReq \o DetailRequests(env.net.features, limit, 0)]

_fetch_activities_from_api_noexcept(env, destination, travel_style, limit) ==
    IF env.api_key = "" THEN [raised |-> FALSE, results |-> <<>>, requests |-> <<>>]
    ELSE FetchTry(env, destination, travel_style, limit)

\* raised: an exception leaves the function; results: the returned list;
\* requests: the requests sent to the service, in order
_fetch_activities_from_api(env, destination, travel_style, limit) ==
    IF env.api_key = "" THEN [raised |-> FALSE, results |-> <<>>, requests |-> <<>>]
    ELSE LET t == FetchTry(env, destination, travel_style, limit)
         IN  IF t.raised
             THEN [raised |-> FALSE, results |-> <<>>, requests |-> t.requests]
             ELSE t

(***************************************************************************)
(* Payload builders: _generate_itinerary_data                              *)
(***************************************************************************)
currency_map(dest_key) ==
    CASE dest_key = S_tokyo -> [code |-> "JPY", symbol |-> "U+00A5"]
      [] dest_key = S_paris -> [code |-> "EUR", symbol |-> "U+20AC"]
      [] dest_key = S_bali -> [code |-> "IDR", symbol |-> "Rp"]
      [] OTHER -> [code |-> "USD", symbol |-> "$"]

\* scale_map as a fraction <<numerator, denominator>>
scale_map(code) ==
    CASE code = "USD" -> <<1, 1>>
      [] code = "EUR" -> <<95, 100>>
      [] code = "JPY" -> <<150, 1>>
      [] code = "IDR" -> <<16000, 1>>
      [] OTHER -> <<1, 1>>

rounding_unit(code) ==
    CASE code = "USD" -> 1
      [] code = "EUR" -> 1
      [] code = "JPY" -> 50
      [] code = "IDR" -> 1000
      [] OTHER -> 1

\* Python round(p / q) for q > 0: to the nearest integer, ties to even.
\* (For the integral amounts 0..1000 and the four scales the float
\* computation of to_money gives the same integers.)
RoundHalfEven(p, q) ==
    LET f == p \div q
        r == p - f * q
    IN  IF 2 * r < q THEN f
        ELSE IF 2 * r > q THEN f + 1
        ELSE IF f % 2 = 0 THEN f ELSE f + 1

to_money(amount_usd, currency) ==
    LET sc == scale_map(currency.code)
        unit == rounding_unit(currency.code)
        rounded == RoundHalfEven(amount_usd * sc[1], sc[2] * unit) * unit
    IN  [estimate |-> Max(0, rounded), currency |-> currency.code]

Activity(nm, description, category) ==
    [name |-> nm,
     description |-> [text |-> description, category |-> "", destination |-> <<>>],
     category |-> category]

catalog_adventure(travel_style) ==
    << Activity("Scenic Hiking Trail", "Half-day hike with panoramic views.", "Hiking"),
       Activity("Kayaking Experience", "Guided paddle through calm waters.", "Water Sports"),
       Activity("Sunset Viewpoint", "Short climb to catch golden hour.", "Outdoors") >>

catalog_nodefault(travel_style) ==
    IF travel_style = S_adventure
    THEN << Activity("Scenic Hiking Trail", "Half-day hike with panoramic views.", "Hiking"),
            Activity("Kayaking Experience", "Guided paddle through calm waters.", "Water Sports"),
            Activity("Sunset Viewpoint", "Short climb to catch golden hour.", "Outdoors") >>
    ELSE <<>>

catalog(travel_style) ==
    CASE travel_style = S_adventure ->
            << Activity("Scenic Hiking Trail", "Half-day hike with panoramic views.", "Hiking"),
               Activity("Kayaking Experience", "Guided paddle through calm waters.", "Water Sports"),
               Activity("Sunset Viewpoint", "Short climb to catch golden hour.", "Outdoors") >>
      [] travel_style = S_relaxed ->
            << Activity("Spa & Wellness Session", "45-60 min massage or spa treatment.", "Wellness"),
               Activity("Cafe Hopping", "Leisurely cafes with pastries and coffee.", "Leisure"),
               Activity("Park Stroll", "Light walk under trees and gardens.", "Parks") >>
      [] travel_style = S_cultural ->
            << Activity("Heritage Museum Visit", "Explore key exhibits and galleries.", "Museum"),
               Activity("Historic District Walk", "Streets with architecture and landmarks.", "History"),
               Activity("Theater or Live Show", "Local performance for an evening.", "Arts") >>
      [] travel_style = S_food ->
            << Activity("Market Food Tour", "Taste local bites and specialties.", "Food"),
               Activity("Cooking Class", "Hands-on class making regional dishes.", "Class"),
               Activity("Street Eats Crawl", "Popular snacks across a few blocks.", "Food") >>
      [] OTHER ->
            << Activity("City Highlights Walk", "Iconic spots in a compact route.", "Sightseeing"),
               Activity("Local Lunch Spot", "Casual eatery with regional flavors.", "Food"),
               Activity("Riverside Evening", "Sunset views and light snacks.", "Leisure") >>

baseline_costs(category) ==
    CASE category = "Hiking" -> 0
      [] category = "Water Sports" -> 40
      [] category = "Outdoors" -> 0
      [] category = "Wellness" -> 50
      [] category = "Leisure" -> 12
      [] category = "Parks" -> 0
      [] category = "Museum" -> 18
      [] category = "History" -> 0
      [] category = "Arts" -> 45
      [] category = "Food" -> 22
      [] category = "Class" -> 55
      [] category = "Sightseeing" -> 0
      [] OTHER -> 0

activity_cost(category, currency) == to_money(baseline_costs(category), currency)

labels == <<"Morning", "Afternoon", "Evening">>

ScanUnique_noscan(activities, k, used_names, spins) == k

\* the while loop of a slot: from 0-based index k, step past names already
\* used that day, at most len(activities) times
RECURSIVE ScanUnique(_, _, _, _)
ScanUnique(activities, k, used_names, spins) ==
    IF activities[k + 1].name \in used_names /\ spins < Len(activities)
    THEN ScanUnique(activities, (k + 1) % Len(activities), used_names, spins + 1)
    ELSE k

\* the value of spins when the while loop of a slot ends
RECURSIVE ScanSpins(_, _, _, _)
ScanSpins(activities, k, used_names, spins) ==
    IF activities[k + 1].name \in used_names /\ spins < Len(activities)
    THEN ScanSpins(activities, (k + 1) % Len(activities), used_names, spins + 1)
    ELSE spins

\* 0-based pool indices chosen for slots j, j+1, .. of a day
RECURSIVE SlotIndices(_, _, _, _)
SlotIndices(activities, start, j, used_names) ==
    IF j >= Len(labels) THEN <<>>
    ELSE LET k == ScanUnique(activities, (start + j) % Len(activities), used_names, 0)
         IN  <<k>> \o SlotIndices(activities, start, j + 1,
                                  used_names \cup {activities[k + 1].name})

\* day i (0-based) of the itinerary
DayPlan(activities, i, destination, currency) ==
    LET start == (i * Len(labels)) % Len(activities)
        ks == SlotIndices(activities, start, 0, {})
    IN  [day |-> i + 1,
         parts |-> [j \in 1..Len(labels) |->
            LET act == activities[ks[j] + 1]
            IN  [timeOfDay |-> labels[j],
                 activity |-> [name |-> act.name,
                               description |-> act.description,
                               category |-> act.category,
                               location |-> destination],
                 cost |-> activity_cost(act.category, currency)]],
         notes |-> <<"Pre-book one key activity",
                     "Group nearby sights to minimize transit",
                     "Consider a day transit pass">>]

RECURSIVE SumSeq(_)
SumSeq(s) == IF s = <<>> THEN 0 ELSE Head(s) + SumSeq(Tail(s))

ActivitiesTotal_morning(days) ==
    SumSeq([d \in 1..Len(days) |-> days[d].parts[1].cost.estimate])

ActivitiesTotal(days) ==
    SumSeq(Flatten([d \in 1..Len(days) |->
        [j \in 1..Len(days[d].parts) |-> days[d].parts[j].cost.estimate]]))

_generate_itinerary_data(env, destination, duration_days, travel_style) ==
    LET currency == currency_map(StrLower(destination))
        fetch == _fetch_activities_from_api(env, destination, travel_style,
                                            Max(6, duration_days * 3))
        fetched == fetch.results
        activities == IF fetched # <<>> THEN fetched ELSE catalog(travel_style)
        days == IF duration_days <= 0 THEN <<>>
                ELSE [d \in 1..duration_days |-> DayPlan(activities, d - 1, destination, currency)]
        activities_total == ActivitiesTotal(days)
        flights_money == to_money(600, currency)
        acc_per_night_money == to_money(120, currency)
        local_transport_per_day_money == to_money(12, currency)
        food_per_day_money == to_money(35, currency)
        breakdown == [flights |-> flights_money,
                      accommodationPerNight |-> acc_per_night_money,
                      activities |-> [estimate |-> activities_total, currency |-> currency.code],
                      localTransportPerDay |-> local_transport_per_day_money,
                      foodPerDay |-> food_per_day_money]
        total_estimate == flights_money.estimate
                          + acc_per_night_money.estimate * duration_days
                          + activities_total
                          + local_transport_per_day_money.estimate * duration_days
                          + food_per_day_money.estimate * duration_days
        payload == [type |-> "itinerary",
                    version |-> 1,
                    destination |-> destination,
                    durationDays |-> duration_days,
                    travelStyle |-> travel_style,
                    currency |-> currency,
                    days |-> days,
                    summary |-> [estimatedTotalCost |->
                                    [estimate |-> total_estimate, currency |-> currency.code],
                                 breakdown |-> breakdown],
                    checklist |-> _generate_checklist(destination, S_Trip).data]
        \* an empty pool makes % len(activities) raise in the first day
        raised == activities = <<>> /\ duration_days >= 1
    IN  IF raised THEN [raised |-> TRUE, requests |-> fetch.requests]
        ELSE [raised |-> FALSE,
              data |-> payload,
              json_tag |-> JsonTag("json itinerary", payload),
              requests |-> fetch.requests]

(***************************************************************************)
(* Tool surface: create_itinerary_template                                 *)
(***************************************************************************)
DurationCap == 14

ClampDuration_none(duration_days) == duration_days

ClampDuration(duration_days) == IF duration_days > DurationCap THEN DurationCap ELSE duration_days

style_notes(travel_style) ==
    CASE travel_style = S_adventure ->
            <<"Check trail conditions and permits", "Pack sufficient water and snacks",
              "Consider sunrise/sunset timing for views">>
      [] travel_style = S_relaxed ->
            <<"Reserve spa/tea time in advance", "Plan for cafe breaks nearby",
              "Leave buffer time between activities">>
      [] travel_style = S_cultural ->
            <<"Verify museum closing days and hours", "Buy skip-the-line tickets if available",
              "Learn a few local phrases">>
      [] travel_style = S_food ->
            <<"Book popular restaurants ahead", "List local specialties to try",
              "Check market opening hours">>
      [] OTHER ->
            <<"Pre-book one key activity", "Group nearby sights to minimize transit",
              "Consider a day transit pass">>

\* the returned markdown, block by block
create_itinerary_template(env, destination, duration_days, travel_style) ==
    LET days == ClampDuration(duration_days)
        itinerary == _generate_itinerary_data(env, destination, days, travel_style)
        checklist == _generate_checklist(destination, S_Trip)
    IN  IF itinerary.raised THEN [raised |-> TRUE, requests |-> itinerary.requests]
        ELSE [raised |-> FALSE,
              heading |-> [title |-> StrTitle(destination), days |-> days],
              style_line |-> StrTitle(travel_style),
              itinerary |-> itinerary.json_tag,
              day_sections |-> IF days < 1 THEN <<>> ELSE [d \in 1..days |-> [md |-> "h3", day |-> d]],
              checklist |-> checklist.json_tag,
              requests |-> itinerary.requests]

(***************************************************************************)
(* Tool surface: research_destination.  The report is the sequence of its  *)
(* lines, each a str; a character outside ASCII is written as its code     *)
(* point ("U+1F4CD").                                                       *)
(***************************************************************************)
\* a in b (str containment)
IsSubstring(a, b) ==
    \E k \in 0..(Len(b) - Len(a)) : SubSeq(b, k + 1, k + Len(a)) = a

\* a list of str and a str, as the values a comprehension iterates over
PyList(items) == [type |-> "list", value |-> items]
PyStr(s) == [type |-> "str", value |-> s]

\* for item in v: the items of a list, the characters of a str
Iter(v) ==
    IF v.type = "list" THEN v.value
    ELSE [i \in 1..Len(v.value) |-> << v.value[i] >>]

\* destinations_db.keys(), in insertion order
DbKeys == << S_tokyo, S_paris, S_bali >>

destinations_db(key) ==
    IF key = S_tokyo THEN
        [ best_time |-> <<"S", "p", "r", "i", "n", "g", " ", "(", "M", "a", "r", "c", "h", "-", "M", "a", "y", ")", " ", "o", "r", " ", "F", "a", "l", "l", " ", "(", "S", "e", "p", "t", "e", "m", "b", "e", "r", "-", "N", "o", "v", "e", "m", "b", "e", "r", ")">>,
          highlights |-> PyList(<< <<"S", "e", "n", "s", "o", "-", "j", "i", " ", "T", "e", "m", "p", "l", "e">>,
                                  <<"S", "h", "i", "b", "u", "y", "a", " ", "C", "r", "o", "s", "s", "i", "n", "g">>,
                                  <<"T", "s", "u", "k", "i", "j", "i", " ", "F", "i", "s", "h", " ", "M", "a", "r", "k", "e", "t">>,
                                  <<"M", "o", "u", "n", "t", " ", "F", "u", "j", "i", " ", "d", "a", "y", " ", "t", "r", "i", "p", "s">> >>),
          food |-> PyList(<< <<"S", "u", "s", "h", "i">>,
                            <<"R", "a", "m", "e", "n">>,
                            <<"T", "e", "m", "p", "u", "r", "a">>,
                            <<"W", "a", "g", "y", "u", " ", "b", "e", "e", "f">>,
                            <<"S", "t", "r", "e", "e", "t", " ", "f", "o", "o", "d", " ", "i", "n", " ", "H", "a", "r", "a", "j", "u", "k", "u">> >>),
          culture |-> PyList(<< <<"T", "r", "a", "d", "i", "t", "i", "o", "n", "a", "l", " ", "t", "e", "a", " ", "c", "e", "r", "e", "m", "o", "n", "i", "e", "s">>,
                               <<"K", "a", "b", "u", "k", "i", " ", "t", "h", "e", "a", "t", "e", "r">>,
                               <<"M", "o", "d", "e", "r", "n", " ", "a", "r", "t", " ", "m", "u", "s", "e", "u", "m", "s">>,
                               <<"A", "n", "i", "m", "e", " ", "c", "u", "l", "t", "u", "r", "e">> >>),
          budget |-> <<"$", "$", "$", " ", "-", " ", "E", "x", "p", "e", "n", "s", "i", "v", "e", " ", "b", "u", "t", " ", "m", "a", "n", "a", "g", "e", "a", "b", "l", "e", " ", "w", "i", "t", "h", " ", "p", "l", "a", "n", "n", "i", "n", "g">>,
          transport |-> <<"E", "x", "c", "e", "l", "l", "e", "n", "t", " ", "p", "u", "b", "l", "i", "c", " ", "t", "r", "a", "n", "s", "p", "o", "r", "t", "a", "t", "i", "o", "n", " ", "w", "i", "t", "h", " ", "J", "R", " ", "P", "a", "s", "s", " ", "f", "o", "r", " ", "t", "o", "u", "r", "i", "s", "t", "s">> ]
    ELSE IF key = S_paris THEN
        [ best_time |-> <<"L", "a", "t", "e", " ", "s", "p", "r", "i", "n", "g", " ", "(", "M", "a", "y", "-", "J", "u", "n", "e", ")", " ", "o", "r", " ", "e", "a", "r", "l", "y", " ", "f", "a", "l", "l", " ", "(", "S", "e", "p", "t", "e", "m", "b", "e", "r", "-", "O", "c", "t", "o", "b", "e", "r", ")">>,
          highlights |-> PyList(<< <<"E", "i", "f", "f", "e", "l", " ", "T", "o", "w", "e", "r">>,
                                  <<"L", "o", "u", "v", "r", "e", " ", "M", "u", "s", "e", "u", "m">>,
                                  <<"N", "o", "t", "r", "e", "-", "D", "a", "m", "e">>,
                                  <<"C", "h", "a", "m", "p", "s", "-", "U+00C9", "l", "y", "s", "U+00E9", "e", "s">> >>),
          food |-> PyList(<< <<"C", "r", "o", "i", "s", "s", "a", "n", "t", "s">>,
                            <<"F", "r", "e", "n", "c", "h", " ", "w", "i", "n", "e">>,
                            <<"C", "h", "e", "e", "s", "e">>,
                            <<"F", "i", "n", "e", " ", "d", "i", "n", "i", "n", "g">>,
                            <<"C", "a", "f", "U+00E9", " ", "c", "u", "l", "t", "u", "r", "e">> >>),
          culture |-> PyList(<< <<"A", "r", "t", " ", "m", "u", "s", "e", "u", "m", "s">>,
                               <<"H", "i", "s", "t", "o", "r", "i", "c", " ", "a", "r", "c", "h", "i", "t", "e", "c", "t", "u", "r", "e">>,
                               <<"F", "a", "s", "h", "i", "o", "n">>,
                               <<"L", "i", "t", "e", "r", "a", "r", "y", " ", "h", "i", "s", "t", "o", "r", "y">> >>),
          budget |-> <<"$", "$", "$", " ", "-", " ", "E", "x", "p", "e", "n", "s", "i", "v", "e", ",", " ", "e", "s", "p", "e", "c", "i", "a", "l", "l", "y", " ", "d", "i", "n", "i", "n", "g", " ", "a", "n", "d", " ", "a", "c", "c", "o", "m", "m", "o", "d", "a", "t", "i", "o", "n">>,
          transport |-> <<"M", "e", "t", "r", "o", " ", "s", "y", "s", "t", "e", "m", " ", "c", "o", "v", "e", "r", "s", " ", "t", "h", "e", " ", "c", "i", "t", "y", " ", "w", "e", "l", "l">> ]
    ELSE
        [ best_time |-> <<"D", "r", "y", " ", "s", "e", "a", "s", "o", "n", " ", "(", "A", "p", "r", "i", "l", "-", "O", "c", "t", "o", "b", "e", "r", ")">>,
          highlights |-> PyList(<< <<"U", "l", "u", "w", "a", "t", "u", " ", "T", "e", "m", "p", "l", "e">>,
                                  <<"R", "i", "c", "e", " ", "t", "e", "r", "r", "a", "c", "e", "s">>,
                                  <<"B", "e", "a", "c", "h", " ", "c", "l", "u", "b", "s">>,
                                  <<"V", "o", "l", "c", "a", "n", "o", " ", "h", "i", "k", "e", "s">> >>),
          food |-> PyList(<< <<"N", "a", "s", "i", " ", "G", "o", "r", "e", "n", "g">>,
                            <<"S", "a", "t", "a", "y">>,
                            <<"F", "r", "e", "s", "h", " ", "t", "r", "o", "p", "i", "c", "a", "l", " ", "f", "r", "u", "i", "t", "s">>,
                            <<"B", "a", "l", "i", "n", "e", "s", "e", " ", "c", "u", "i", "s", "i", "n", "e">> >>),
          culture |-> PyList(<< <<"H", "i", "n", "d", "u", " ", "t", "e", "m", "p", "l", "e", "s">>,
                               <<"T", "r", "a", "d", "i", "t", "i", "o", "n", "a", "l", " ", "d", "a", "n", "c", "e">>,
                               <<"A", "r", "t", " ", "v", "i", "l", "l", "a", "g", "e", "s">>,
                               <<"S", "p", "i", "r", "i", "t", "u", "a", "l", " ", "r", "e", "t", "r", "e", "a", "t", "s">> >>),
          budget |-> <<"$", "$", " ", "-", " ", "V", "e", "r", "y", " ", "a", "f", "f", "o", "r", "d", "a", "b", "l", "e", " ", "f", "o", "r", " ", "a", "c", "c", "o", "m", "m", "o", "d", "a", "t", "i", "o", "n", " ", "a", "n", "d", " ", "f", "o", "o", "d">>,
          transport |-> <<"S", "c", "o", "o", "t", "e", "r", " ", "r", "e", "n", "t", "a", "l", " ", "p", "o", "p", "u", "l", "a", "r", ",", " ", "p", "r", "i", "v", "a", "t", "e", " ", "d", "r", "i", "v", "e", "r", "s", " ", "a", "v", "a", "i", "l", "a", "b", "l", "e">> ]

\* the else branch of the key loop: the three sections are f-strings
FallbackInfo(destination) ==
    [ best_time |-> <<"R", "e", "s", "e", "a", "r", "c", "h", " ", "l", "o", "c", "a", "l", " ", "c", "l", "i", "m", "a", "t", "e", " ", "a", "n", "d", " ", "p", "e", "a", "k", " ", "s", "e", "a", "s", "o", "n", "s">>,
      highlights |-> PyStr(<<"P", "o", "p", "u", "l", "a", "r", " ", "a", "t", "t", "r", "a", "c", "t", "i", "o", "n", "s", " ", "a", "n", "d", " ", "l", "a", "n", "d", "m", "a", "r", "k", "s", " ", "i", "n", " ">> \o destination),
      food |-> PyStr(<<"L", "o", "c", "a", "l", " ", "c", "u", "i", "s", "i", "n", "e", " ", "a", "n", "d", " ", "s", "p", "e", "c", "i", "a", "l", "t", "i", "e", "s", " ", "o", "f", " ">> \o destination),
      culture |-> PyStr(<<"C", "u", "l", "t", "u", "r", "a", "l", " ", "e", "x", "p", "e", "r", "i", "e", "n", "c", "e", "s", " ", "a", "n", "d", " ", "t", "r", "a", "d", "i", "t", "i", "o", "n", "s", " ", "i", "n", " ">> \o destination),
      budget |-> <<"R", "e", "s", "e", "a", "r", "c", "h", " ", "l", "o", "c", "a", "l", " ", "c", "o", "s", "t", " ", "o", "f", " ", "l", "i", "v", "i", "n", "g", " ", "a", "n", "d", " ", "t", "o", "u", "r", "i", "s", "t", " ", "p", "r", "i", "c", "e", "s">>,
      transport |-> <<"L", "o", "c", "a", "l", " ", "t", "r", "a", "n", "s", "p", "o", "r", "t", "a", "t", "i", "o", "n", " ", "o", "p", "t", "i", "o", "n", "s", " ", "a", "n", "d", " ", "t", "o", "u", "r", "i", "s", "t", " ", "p", "a", "s", "s", "e", "s">> ]

MatchesKey_oneway(key, dest_key) == IsSubstring(key, dest_key)

\* key in dest_key or dest_key in key
MatchesKey(key, dest_key) == IsSubstring(key, dest_key) \/ IsSubstring(dest_key, key)

\* the for/else over the keys: the first key that matches, 0 when the loop
\* ends without a break
FirstMatch(dest_key) ==
    IF \E i \in 1..Len(DbKeys) : MatchesKey(DbKeys[i], dest_key)
    THEN CHOOSE i \in 1..Len(DbKeys) :
            /\ MatchesKey(DbKeys[i], dest_key)
            /\ \A j \in 1..(i - 1) : ~MatchesKey(DbKeys[j], dest_key)
    ELSE 0

\* [f"- {item}" for item in v]
Bullets(v) == [i \in 1..Len(Iter(v)) |-> <<"-", " ">> \o Iter(v)[i]]

research_destination(destination) ==
    LET dest_key == StrLower(destination)
        m == FirstMatch(dest_key)
        info == IF m # 0 THEN destinations_db(DbKeys[m]) ELSE FallbackInfo(destination)
    IN  [ report |->
            << <<"#", "#", " ", "U+1F4CD", " ">> \o StrTitle(destination) \o <<" ", "R", "e", "s", "e", "a", "r", "c", "h">>,
               <<>>,
               <<"*", "*", "U+1F31F", " ", "B", "e", "s", "t", " ", "T", "i", "m", "e", " ", "t", "o", " ", "V", "i", "s", "i", "t", ":", "*", "*", " ">> \o info.best_time,
               <<>>,
               <<"*", "*", "U+1F3DB", "U+FE0F", " ", "M", "u", "s", "t", "-", "S", "e", "e", " ", "H", "i", "g", "h", "l", "i", "g", "h", "t", "s", ":", "*", "*">> >>
            \o Bullets(info.highlights)
            \o << <<>>,
                  <<"*", "*", "U+1F37D", "U+FE0F", " ", "F", "o", "o", "d", " ", "&", " ", "D", "i", "n", "i", "n", "g", ":", "*", "*">> >>
            \o Bullets(info.food)
            \o << <<>>,
                  <<"*", "*", "U+1F3AD", " ", "C", "u", "l", "t", "u", "r", "e", " ", "&", " ", "E", "x", "p", "e", "r", "i", "e", "n", "c", "e", "s", ":", "*", "*">> >>
            \o Bullets(info.culture)
            \o << <<>>,
                  <<"*", "*", "U+1F4B0", " ", "B", "u", "d", "g", "e", "t", ":", "*", "*", " ">> \o info.budget,
                  <<>>,
                  <<"*", "*", "U+1F68C", " ", "T", "r", "a", "n", "s", "p", "o", "r", "t", "a", "t", "i", "o", "n", ":", "*", "*", " ">> \o info.transport >> ]

\* destination arguments of research_destination
ResearchDestinations ==
    { <<"T", "o", "k", "y", "o", ",", " ", "J", "a", "p", "a", "n">>,
      <<"P", "A", "R", "I", "S">>,
      <<"B", "a", "l", "i">>,
      <<"P", "a", "r", "i", "s", " ", "t", "o", " ", "B", "a", "l", "i">>,
      <<"A", "t", "l", "a", "n", "t", "i", "s">>,
      <<"o">>,
      <<>>,
      <<"a">>,
      <<"l", "i">>,
      <<"a", "t", "l", "a", "n", "t", "i", "s">>,
      <<"n", "e", "w", " ", "y", "o", "r", "k">> }


(***************************************************************************)
(* Direct invocations of the tools and builders.  A behaviour of ToolSpec  *)
(* starts with one pending invocation and the matching step applies it.    *)
(***************************************************************************)
\* duration_days ranges over -DaysBelowZero .. MaxDuration
DaysBelowZero == 4
MaxDuration == 16

Durations == (0 - DaysBelowZero)..MaxDuration

\* duration_days paired with an adapter pool: the walk over a pool of n
\* entries repeats after at most n days, so the short durations, the cap and
\* the longest duration
MaxPoolDuration == 6
PoolDurations == (0..MaxPoolDuration) \cup {DurationCap, MaxDuration}

\* Environments in which the adapter yields nothing: no credential
\* (whatever the service would answer), a failing or empty service.
EmptyEnvs ==
    { Env("", NetOk(fs)) : fs \in {q \in FeatureLists : Len(q) = 1} }
    \cup { Env("key", n) : n \in NetFailures }
    \cup { Env("key", NetOk(<<>>)) }

\* Environments in which the adapter yields a pool.
PoolEnvs == { Env("key", NetOk(fs)) : fs \in FeatureLists \ {<<>>} }

\* The travel style picks the pool only when the adapter yields nothing, so
\* every style and destination is paired with the empty environments, and
\* the adapter pools with an unknown style and with a destination inside
\* and outside currency_map.
ItineraryArgs ==
    { [env |-> e, destination |-> d, duration_days |-> n, travel_style |-> t] :
        e \in EmptyEnvs, d \in Destinations, n \in Durations, t \in TravelStyles }
    \cup
    { [env |-> e, destination |-> d, duration_days |-> n, travel_style |-> t] :
        e \in PoolEnvs, d \in {S_tokyo, <<"T", "o", "k", "y", "o", ",", " ", "J", "a", "p", "a", "n">>},
        n \in PoolDurations,
        t \in {<<"l", "u", "x", "u", "r", "y">>} }

ToolCalls ==
    { [op |-> "generate_checklist", destination |-> d, context |-> c] :
        d \in Destinations, c \in Contexts }
    \cup { [op |-> "fetch_activities", env |-> e, destination |-> d, travel_style |-> t, limit |-> l] :
        e \in EmptyEnvs \cup PoolEnvs, d \in {S_tokyo}, t \in {S_food}, l \in {1, 2, 9} }
    \cup { [op |-> "generate_itinerary", args |-> a] : a \in ItineraryArgs }
    \cup { [op |-> "create_itinerary_template", args |-> a] : a \in ItineraryArgs }
    \cup { [op |-> "research_destination", destination |-> d] : d \in ResearchDestinations }

ToolInit ==
    /\ pc = "END"
    /\ messages = <<>>
    /\ content = <<>>
    /\ group_id = ""
    /\ groupId = ""
    /\ tools = <<>>
    /\ prompt = <<>>
    /\ executed = <<>>
    /\ iterations = 0
    /\ call \in ToolCalls
    /\ result = NoCall

GenerateChecklist ==
    /\ call.op = "generate_checklist" /\ result = NoCall
    /\ result' = _generate_checklist(call.destination, call.context)
    /\ UNCHANGED <<dispatchVars, call>>

FetchActivities ==
    /\ call.op = "fetch_activities" /\ result = NoCall
    /\ result' = _fetch_activities_from_api(call.env, call.destination, call.travel_style, call.limit)
    /\ UNCHANGED <<dispatchVars, call>>

GenerateItineraryData ==
    /\ call.op = "generate_itinerary" /\ result = NoCall
    /\ result' = _generate_itinerary_data(call.args.env, call.args.destination,
                                          call.args.duration_days, call.args.travel_style)
    /\ UNCHANGED <<dispatchVars, call>>

CreateItineraryTemplate ==
    /\ call.op = "create_itinerary_template" /\ result = NoCall
    /\ result' = create_itinerary_template(call.args.env, call.args.destination,
                                           call.args.duration_days, call.args.travel_style)
    /\ UNCHANGED <<dispatchVars, call>>

ResearchDestination ==
    /\ call.op = "research_destination" /\ result = NoCall
    /\ result' = research_destination(call.destination)
    /\ UNCHANGED <<dispatchVars, call>>

ToolNext ==
    \/ GenerateChecklist
    \/ FetchActivities
    \/ GenerateItineraryData
    \/ CreateItineraryTemplate
    \/ ResearchDestination

ToolSpec == ToolInit /\ [][ToolNext]_vars

(***************************************************************************)
(* Properties of the dispatch loop                                         *)
(***************************************************************************)
FourBackendTools ==
    {"research_destination", "create_itinerary_template",
     "suggest_improvements", "add_planning_section"}

RequestsBackend(m) == \E i \in 1..Len(m.tool_calls) : m.tool_calls[i] \in FourBackendTools

AIIndices == {i \in 1..Len(messages) : messages[i].type = "ai"}

\* index of the latest model response in the history (0 when there is none)
LastAI == IF AIIndices = {} THEN 0 ELSE CHOOSE i \in AIIndices : \A j \in AIIndices : j <= i

\* indices of the responses the model gave in this turn
TurnResponses ==
    {i \in AIIndices : Cardinality({j \in AIIndices : j > i}) < iterations}

ChatRoutes == pc = "chat_node" /\ pc' = "tool_node"

\* C1: every chat_node step appends the model's response and goes to
\* tool_node exactly when some tool call of the response names one of the four
\* backend tools, otherwise (no tool calls, or frontend calls only) to END
\* with that response as the last message; every tool_node step goes back to
\* chat_node.
C1_DispatchRouting ==
    [][ /\ pc = "chat_node" =>
            /\ Len(messages') = Len(messages) + 1
            /\ messages'[Len(messages')].type = "ai"
            /\ pc' = "tool_node" <=> RequestsBackend(messages'[Len(messages')])
            /\ pc' = "END" <=> ~RequestsBackend(messages'[Len(messages')])
        /\ pc = "tool_node" => pc' = "chat_node"
        /\ pc # "END" ]_vars

C1_Witness ==
    /\ pc = "END"
    /\ iterations = 2
    /\ messages[Len(messages)].tool_calls = <<"updateDocument", "addSection">>
    /\ executed # <<>>

IsMixedPair(calls) ==
    /\ Len(calls) = 2
    /\ Cardinality({i \in 1..2 : calls[i] \in FourBackendTools}) = 1

\* C2: after the tool step for a response with one backend call and one
\* frontend call, only the backend tool was invoked and the tool step left no
\* message answering the frontend call.
C2_MixedOnlyBackendAnswered ==
    (pc = "chat_node" /\ iterations > 0 /\ IsMixedPair(messages[LastAI].tool_calls)) =>
        /\ Len(executed) = 1
        /\ executed[1] \in FourBackendTools
        /\ \A i \in (LastAI + 1)..Len(messages) : messages[i].name \in FourBackendTools

\* C3: the tool step between two model calls invokes at most one tool.
C3_AtMostOneToolPerTurn == Len(executed) <= 1

\* C4: a chat_node step ends the turn exactly when its response requests no
\* backend tool; as long as every response of the turn requested a backend
\* tool the turn has not ended; and once the model stops requesting backend
\* tools the turn ends.
C4_Termination ==
    /\ [][ (pc # "END" /\ pc' = "END") <=>
           (pc = "chat_node" /\ Len(messages') = Len(messages) + 1
              /\ ~RequestsBackend(messages'[Len(messages')])) ]_vars
    /\ []((\A i \in TurnResponses : RequestsBackend(messages[i])) => pc # "END")
    /\ (<>[][~ChatRoutes]_vars => <>(pc = "END"))

C4_Witness ==
    /\ pc = "tool_node"
    /\ iterations = MaxRounds
    /\ \A i \in TurnResponses : RequestsBackend(messages[i])

\* C5: the latest model invocation received one system message followed by
\* the last min(6, n) messages of the n-message history it was called with,
\* in order, and the system message embeds the first 8000 characters of the
\* document.
C5_PromptBounds ==
    iterations > 0 =>
        LET n == LastAI - 1
            m == IF n < 6 THEN n ELSE 6
            snap == prompt[1].doc_snapshot
        IN  /\ Len(prompt) = 1 + m
            /\ prompt[1].type = "system"
            /\ \A i \in 1..m : prompt[1 + i] = messages[n - m + i]
            /\ RLLen(snap) = (IF RLLen(content) < 8000 THEN RLLen(content) ELSE 8000)
            /\ \A i \in {1, 5, 7999, 8000} :
                  i <= RLLen(snap) => RLCharAt(snap, i) = RLCharAt(content, i)

C5_Witness ==
    /\ iterations = 3
    /\ Len(prompt) = 7
    /\ LastAI > 10
    /\ RLLen(content) > 8000
    /\ RLLen(prompt[1].doc_snapshot) = 8000

(***************************************************************************)
(* Properties of the payload builders and tools                            *)
(***************************************************************************)
Returned == result # NoCall

\* the itinerary payload the latest invocation emitted
ItineraryCall == call.op \in {"generate_itinerary", "create_itinerary_template"}
PayloadOf == IF call.op = "generate_itinerary" THEN result.data ELSE result.itinerary.json

\* the activity pool the generator walked: the adapter's records, or the
\* catalog entry when there are none
PoolOf(a) ==
    LET got == _fetch_activities_from_api(a.env, a.destination, a.travel_style,
                                          Max(6, a.duration_days * 3)).results
    IN  IF got # <<>> THEN got ELSE catalog(a.travel_style)

NamesOf(pool) == {pool[i].name : i \in 1..Len(pool)}

\* C6: for duration_days in 1..14 generate_itinerary returns duration_days
\* days numbered 1..duration_days, each with the three parts Morning,
\* Afternoon, Evening in that order, and the parts of a day have pairwise
\* different activity names whenever the pool holds at least 3 distinct names.
C6_ItineraryShape ==
    (Returned /\ call.op = "generate_itinerary"
        /\ call.args.duration_days >= 1 /\ call.args.duration_days <= 14) =>
        LET days == result.data.days
        IN  /\ Len(days) = call.args.duration_days
            /\ \A i \in 1..Len(days) :
                /\ days[i].day = i
                /\ Len(days[i].parts) = 3
                /\ days[i].parts[1].timeOfDay = "Morning"
                /\ days[i].parts[2].timeOfDay = "Afternoon"
                /\ days[i].parts[3].timeOfDay = "Evening"
                /\ Cardinality(NamesOf(PoolOf(call.args))) >= 3 =>
                      \A j, k \in 1..3 :
                          j # k => days[i].parts[j].activity.name # days[i].parts[k].activity.name

C6_Witness ==
    /\ Returned /\ call.op = "generate_itinerary"
    /\ call.args.duration_days = 14
    /\ Len(PoolOf(call.args)) = 4
    /\ Cardinality(NamesOf(PoolOf(call.args))) = 3
    /\ PoolOf(call.args)[1].name = PoolOf(call.args)[2].name
    /\ Len(result.data.days) = 14

\* C7: the payload emitted by create_itinerary_template has durationDays at
\* most 14 and as many days as durationDays, for every integer duration_days.
C7_PayloadDuration ==
    (Returned /\ call.op = "create_itinerary_template") =>
        /\ PayloadOf.durationDays <= 14
        /\ Len(PayloadOf.days) = PayloadOf.durationDays

\* C8: create_itinerary_template with duration_days above 14 returns what it
\* returns with duration_days = 14.
C8_ClampBeyondCap ==
    (Returned /\ call.op = "create_itinerary_template" /\ call.args.duration_days > 14) =>
        result = create_itinerary_template(call.args.env, call.args.destination, 14,
                                           call.args.travel_style)

C8_Witness ==
    /\ Returned /\ call.op = "create_itinerary_template"
    /\ call.args.duration_days = 16
    /\ result.heading.days = 14
    /\ Len(result.day_sections) = 14
    /\ Len(result.itinerary.json.days) = 14

RoundingUnitOf(code) ==
    IF code = "IDR" THEN 1000 ELSE IF code = "JPY" THEN 50 ELSE 1

IsMoney(m, code) ==
    /\ m.currency = code
    /\ m.estimate \in Int
    /\ m.estimate >= 0
    /\ m.estimate % RoundingUnitOf(code) = 0

MoneyValues(p) ==
    {p.days[i].parts[j].cost : i \in 1..Len(p.days), j \in 1..3}
    \cup {p.summary.breakdown.flights, p.summary.breakdown.accommodationPerNight,
          p.summary.breakdown.activities, p.summary.breakdown.localTransportPerDay,
          p.summary.breakdown.foodPerDay, p.summary.estimatedTotalCost}

\* C9: every Money value of an emitted itinerary payload is a non-negative
\* integer multiple of the rounding unit of the payload's currency.
C9_MoneyInvariant ==
    (Returned /\ ItineraryCall) =>
        \A m \in MoneyValues(PayloadOf) : IsMoney(m, PayloadOf.currency.code)

IsChecklistShape(c) ==
    /\ c.version = 1
    /\ Len(c.sections) = 3
    /\ c.sections[1].title = "Before You Go" /\ Len(c.sections[1].items) = 7
    /\ c.sections[2].title = "Pack & Prepare" /\ Len(c.sections[2].items) = 6
    /\ c.sections[3].title = "During Trip" /\ Len(c.sections[3].items) = 4
    /\ \A s \in 1..3 : \A k \in 1..Len(c.sections[s].items) :
          c.sections[s].items[k].checked = FALSE

\* C10: the checklist payload returned by generate_checklist, and the one
\* attached to every itinerary payload, has version 1 and the sections
\* Before You Go, Pack & Prepare, During Trip with 7, 6 and 4 items, all
\* unchecked.
C10_ChecklistShape ==
    /\ (Returned /\ call.op = "generate_checklist") => IsChecklistShape(result.data)
    /\ (Returned /\ ItineraryCall) => IsChecklistShape(PayloadOf.checklist)

C10_Witness ==
    /\ Returned /\ call.op = "generate_checklist"
    /\ call.destination # <<>>
    /\ Len(call.context) > 4
    /\ Len(result.markdown) = 21

(***************************************************************************)
(* Properties of the adapter and of the catalog fallback                   *)
(***************************************************************************)
\* the names of the static catalog, by travel style
CatalogNamesOf(style) ==
    IF style = <<"a", "d", "v", "e", "n", "t", "u", "r", "e">>
    THEN {"Scenic Hiking Trail", "Kayaking Experience", "Sunset Viewpoint"}
    ELSE IF style = <<"r", "e", "l", "a", "x", "e", "d">>
    THEN {"Spa & Wellness Session", "Cafe Hopping", "Park Stroll"}
    ELSE IF style = <<"c", "u", "l", "t", "u", "r", "a", "l">>
    THEN {"Heritage Museum Visit", "Historic District Walk", "Theater or Live Show"}
    ELSE IF style = <<"f", "o", "o", "d">>
    THEN {"Market Food Tour", "Cooking Class", "Street Eats Crawl"}
    ELSE {"City Highlights Walk", "Local Lunch Spot", "Riverside Evening"}

AdapterResultOf(a) ==
    _fetch_activities_from_api(a.env, a.destination, a.travel_style,
                               Max(6, a.duration_days * 3)).results

\* C11: with the credential unset the adapter returns [] and sends no
\* request; whenever the adapter returns [] every activity of every day of
\* the itinerary is an entry of the catalog of the travel style, the balanced
\* one for a style outside the five.
C11_CatalogFallback ==
    /\ (Returned /\ call.op = "fetch_activities" /\ call.env.api_key = "") =>
          (result.results = <<>> /\ result.requests = <<>>)
    /\ (Returned /\ ItineraryCall /\ call.args.env.api_key = "") => result.requests = <<>>
    /\ (Returned /\ ItineraryCall /\ AdapterResultOf(call.args) = <<>>) =>
          \A i \in 1..Len(PayloadOf.days) : \A j \in 1..3 :
              PayloadOf.days[i].parts[j].activity.name \in CatalogNamesOf(call.args.travel_style)

C11_Witness ==
    /\ Returned /\ call.op = "generate_itinerary"
    /\ call.args.env.api_key = ""
    /\ call.args.env.net.features # <<>>
    /\ call.args.travel_style = <<"l", "u", "x", "u", "r", "y">>
    /\ call.args.duration_days = 2
    /\ result.requests = <<>>
    /\ result.data.days[2].parts[1].activity.name = "City Highlights Walk"

\* a detail request that failed was sent during the latest adapter call
DetailFailed ==
    \E i \in 1..Len(call.env.net.features) :
        /\ call.env.net.features[i].detail = "raise"
        /\ \E r \in 1..Len(result.requests) :
              result.requests[r] = [endpoint |-> "xid", arg |-> call.env.net.features[i].xid]

\* C12 as claimed: no exception leaves the adapter, and a failure anywhere
\* (geocode call, missing coordinates, radius search, malformed response,
\* detail call) makes it return the empty list.
C12_AnyFailureEmpty ==
    (Returned /\ call.op = "fetch_activities" /\ call.env.api_key # "") =>
        /\ result.raised = FALSE
        /\ (call.env.net.geo # "ok" \/ call.env.net.radius # "ok" \/ DetailFailed) =>
              result.results = <<>>

\* C12 as amended: no exception leaves the adapter; a failing geocode call,
\* missing coordinates, a failing radius search or a malformed response make
\* it return the empty list; a failing detail call is swallowed and the place
\* stays in the list with its generic description.
C12_AdapterNeverFails ==
    (Returned /\ call.op = "fetch_activities") =>
        /\ result.raised = FALSE
        /\ (call.env.api_key # "" /\ (call.env.net.geo # "ok" \/ call.env.net.radius # "ok")) =>
              result.results = <<>>
        /\ (call.env.api_key # "" /\ call.env.net.geo = "ok" /\ call.env.net.radius = "ok") =>
              /\ Len(result.results) = Min(Len(call.env.net.features), Max(call.limit, 1))
              /\ \A i \in 1..Len(result.results) :
                    call.env.net.features[i].detail = "raise" =>
                        result.results[i].description.text = "A <category.lower()> in <destination>."

C12_Witness ==
    /\ Returned /\ call.op = "fetch_activities"
    /\ call.env.api_key # ""
    /\ DetailFailed
    /\ Len(result.results) = 2
    /\ result.results[1].name = "Ramen Street"
    /\ result.results[1].description.text = "A <category.lower()> in <destination>."

(***************************************************************************)
(* Properties of research_destination                                      *)
(***************************************************************************)
ReportCall == Returned /\ call.op = "research_destination"
KeyHit(k) ==
    \/ IsSubstring(k, StrLower(call.destination))
    \/ IsSubstring(StrLower(call.destination), k)
\* s in report, for a str s with no line feed: s is in one of the lines
InReport(s) == \E i \in 1..Len(result.report) : IsSubstring(s, result.report[i])

TokyoMark == <<"-", " ", "S", "e", "n", "s", "o", "-", "j", "i", " ", "T", "e", "m", "p", "l", "e">>
ParisMark == <<"-", " ", "E", "i", "f", "f", "e", "l", " ", "T", "o", "w", "e", "r">>
BaliMark == <<"-", " ", "U", "l", "u", "w", "a", "t", "u", " ", "T", "e", "m", "p", "l", "e">>
FallbackMark == <<"R", "e", "s", "e", "a", "r", "c", "h", " ", "l", "o", "c", "a", "l", " ", "c", "l", "i", "m", "a", "t", "e", " ", "a", "n", "d", " ", "p", "e", "a", "k", " ", "s", "e", "a", "s", "o", "n", "s">>

\* C13: the lower-cased destination matches a key when the key is a
\* substring of it or it is a substring of the key; the keys are tried in the
\* order tokyo, paris, bali and the first match gives the report; the
\* fallback report is produced exactly when no key matches in either
\* direction, never for the empty destination; 'Tokyo, Japan' gives the
\* tokyo report with 'Senso-ji Temple'.
C13_ResearchMatching ==
    ReportCall =>
        /\ InReport(TokyoMark) <=> KeyHit(S_tokyo)
        /\ InReport(ParisMark) <=> (~KeyHit(S_tokyo) /\ KeyHit(S_paris))
        /\ InReport(BaliMark) <=> (~KeyHit(S_tokyo) /\ ~KeyHit(S_paris) /\ KeyHit(S_bali))
        /\ InReport(FallbackMark) <=> (~KeyHit(S_tokyo) /\ ~KeyHit(S_paris) /\ ~KeyHit(S_bali))
        /\ call.destination = <<>> => ~InReport(FallbackMark)
        /\ call.destination = <<"T", "o", "k", "y", "o", ",", " ", "J", "a", "p", "a", "n">> => InReport(TokyoMark)

C13_Witness ==
    /\ ReportCall
    /\ call.destination = <<"T", "o", "k", "y", "o", ",", " ", "J", "a", "p", "a", "n">>
    /\ result.report[6] = TokyoMark
    /\ ~InReport(ParisMark)

\* C14 as claimed: the report of a destination that matches no key contains
\* the destination exactly as given, and its highlights, food and culture
\* sections each render their sentence naming the destination.
C14_FallbackNamesDestination ==
    (ReportCall /\ ~KeyHit(S_tokyo) /\ ~KeyHit(S_paris) /\ ~KeyHit(S_bali)) =>
        /\ InReport(call.destination)
        /\ InReport(<<"P", "o", "p", "u", "l", "a", "r", " ", "a", "t", "t", "r", "a", "c", "t", "i", "o", "n", "s", " ", "a", "n", "d", " ", "l", "a", "n", "d", "m", "a", "r", "k", "s", " ", "i", "n", " ">> \o call.destination)
        /\ InReport(<<"L", "o", "c", "a", "l", " ", "c", "u", "i", "s", "i", "n", "e", " ", "a", "n", "d", " ", "s", "p", "e", "c", "i", "a", "l", "t", "i", "e", "s", " ", "o", "f", " ">> \o call.destination)
        /\ InReport(<<"C", "u", "l", "t", "u", "r", "a", "l", " ", "e", "x", "p", "e", "r", "i", "e", "n", "c", "e", "s", " ", "a", "n", "d", " ", "t", "r", "a", "d", "i", "t", "i", "o", "n", "s", " ", "i", "n", " ">> \o call.destination)

(***************************************************************************)
(* Properties of the cost summary and of the slot walk                     *)
(***************************************************************************)
\* the part cost estimates of days 1..n, added up day by day
RECURSIVE PartCostSum(_, _)
PartCostSum(days, n) ==
    IF n = 0 THEN 0
    ELSE PartCostSum(days, n - 1)
         + days[n].parts[1].cost.estimate
         + days[n].parts[2].cost.estimate
         + days[n].parts[3].cost.estimate

\* C15: in every itinerary payload the grand total is flights +
\* accommodationPerNight x durationDays + the sum of all part cost estimates
\* + localTransportPerDay x durationDays + foodPerDay x durationDays, each
\* term the converted local-currency estimate of the breakdown, and
\* breakdown.activities.estimate is the sum of all part cost estimates.
C15_GrandTotal ==
    (Returned /\ ItineraryCall) =>
        LET p == PayloadOf
            b == p.summary.breakdown
            parts == PartCostSum(p.days, Len(p.days))
        IN  /\ b.activities.estimate = parts
            /\ b.flights = to_money(600, p.currency)
            /\ b.accommodationPerNight = to_money(120, p.currency)
            /\ b.localTransportPerDay = to_money(12, p.currency)
            /\ b.foodPerDay = to_money(35, p.currency)
            /\ p.summary.estimatedTotalCost.estimate =
                  b.flights.estimate
                  + b.accommodationPerNight.estimate * p.durationDays
                  + parts
                  + b.localTransportPerDay.estimate * p.durationDays
                  + b.foodPerDay.estimate * p.durationDays

C15_Witness ==
    /\ Returned /\ call.op = "generate_itinerary"
    /\ call.args.duration_days = 3
    /\ result.data.currency.code = "JPY"
    /\ result.data.summary.breakdown.activities.estimate > 0
    /\ result.data.summary.estimatedTotalCost.estimate =
          90000 + 3 * 18000 + result.data.summary.breakdown.activities.estimate
          + 3 * 1800 + 3 * 5250

\* the pool index at which the first slot of day i (1-based) starts
StartOf(pool, i) == ((i - 1) * 3) % Len(pool)

\* C16 as claimed: the first slot of day i is the pool entry at index
\* (i * 3) mod pool_size (i counted from 0), and for every pool any two
\* consecutive days start at different pool indices.
C16_RotatingStart ==
    (Returned /\ call.op = "generate_itinerary") =>
        LET pool == PoolOf(call.args)
            days == result.data.days
        IN  /\ \A i \in 1..Len(days) :
                   days[i].parts[1].activity.name = pool[StartOf(pool, i) + 1].name
            /\ \A i \in 1..(Len(days) - 1) : StartOf(pool, i) # StartOf(pool, i + 1)

\* the pool walked for the payload that was returned
WalkedPool == PoolOf([call.args EXCEPT !.duration_days = PayloadOf.durationDays])

\* the names used in day d before slot j
UsedBefore(d, j) == {PayloadOf.days[d].parts[m].activity.name : m \in 1..(j - 1)}

\* spins of the uniqueness scan of slot j of day d over the pool
SpinsOf(pool, d, j) ==
    ScanSpins(pool, (StartOf(pool, d) + j - 1) % Len(pool), UsedBefore(d, j), 0)

\* C17: generate_itinerary never raises: the pool is never empty, every slot
\* is filled with an entry of the pool, the uniqueness scan of a slot makes
\* at most pool_size steps, a style outside the five is served from the
\* balanced catalog, a destination outside the currency table gets USD, and
\* a payload is always returned.
C17_NeverRaises ==
    (Returned /\ ItineraryCall) =>
        /\ result.raised = FALSE
        /\ PayloadOf.type = "itinerary"
        /\ LET pool == WalkedPool
               names == NamesOf(pool)
               days == PayloadOf.days
           IN  /\ pool # <<>>
               /\ \A d \in 1..Len(days) : \A j \in 1..3 :
                     /\ days[d].parts[j].activity.name \in names
                     /\ SpinsOf(pool, d, j) <= Len(pool)
               /\ (call.args.travel_style \notin {S_adventure, S_relaxed, S_cultural, S_food, S_balanced}
                     /\ AdapterResultOf(call.args) = <<>>) =>
                     names = {"City Highlights Walk", "Local Lunch Spot", "Riverside Evening"}
        /\ StrLower(call.args.destination) \notin {S_tokyo, S_paris, S_bali} =>
              PayloadOf.currency = [code |-> "USD", symbol |-> "$"]

C17_Witness ==
    /\ Returned /\ call.op = "generate_itinerary"
    /\ result.raised = FALSE
    /\ call.args.destination = <<"T", "o", "k", "y", "o", ",", " ", "J", "a", "p", "a", "n">>
    /\ call.args.travel_style = <<"l", "u", "x", "u", "r", "y">>
    /\ call.args.duration_days = 2
    /\ Len(WalkedPool) = 1
    /\ SpinsOf(WalkedPool, 2, 3) = 1
    /\ result.data.currency.code = "USD"

(***************************************************************************)
(* Properties of the end of a turn                                         *)
(***************************************************************************)
ToolIndices == {i \in 1..Len(messages) : messages[i].type = "tool"}

\* C18: END is entered only by a chat_node step, never by tool_node; when
\* the turn has ended the last message is the model's response and requests
\* no backend tool, and every tool result in the history is followed by a
\* later model response; each chat_node step appends exactly one message.
C18_TerminalMessage ==
    /\ [][ /\ (pc # "END" /\ pc' = "END") => pc = "chat_node"
           /\ pc = "tool_node" => pc' = "chat_node"
           /\ pc = "chat_node" =>
                 /\ Len(messages') = Len(messages) + 1
                 /\ SubSeq(messages', 1, Len(messages)) = messages
                 /\ messages'[Len(messages')].type = "ai" ]_vars
    /\ [](pc = "END" =>
            /\ messages[Len(messages)].type = "ai"
            /\ ~RequestsBackend(messages[Len(messages)])
            /\ \A i \in ToolIndices : \E j \in AIIndices : j > i)

C18_Witness ==
    /\ pc = "END"
    /\ iterations = 2
    /\ messages[Len(messages)].type = "ai"
    /\ messages[Len(messages)].tool_calls = <<>>
    /\ Cardinality(ToolIndices) = 3

====
